---- MODULE Spec2Model ----
(***************************************************************************)
(* Session manager of fold.backend: register / login / refresh rotation /  *)
(* logout / password change over the user and refresh-token tables.        *)
(* Every handler is cut at its awaits: one step of an action is the code   *)
(* between two store operations, with the store operation it ends in.      *)
(***************************************************************************)
EXTENDS Integers, Sequences, FiniteSets, TLC

VARIABLES now, ms, users, tokens, nextId, calls, store, audit

\* now: the clock in whole seconds; ms: the milliseconds it is past that second
vars == <<now, ms, users, tokens, nextId, calls, store, audit>>
\* the rate limiter's Map and the record kept of what it was asked (rateLimit.ts),
\* each a function of the key to nothing or one entry
limits == <<store, audit>>

(* ------------------------------ bounds --------------------------------- *)
MaxNow == 1
CapTicks == 2
CapHeld == 2
MaxCount == 12

Procs == {"p1", "p2"}
Ips == {"ip1"}
RawEmails == {"a@x.io", "A@x.io", "b@x.io"}
OneEmail == {"a@x.io", "A@x.io"}
Passwords == {"Abcd1234!", "Wxyz9876!"}

(* ------------------------------ config --------------------------------- *)
JWT_ACCESS_EXPIRES_IN == <<"1", "5", "m">>
JWT_REFRESH_EXPIRES_IN == <<"7", "d">>
JWT_ACCESS_SECRET == "access-secret"
JWT_REFRESH_SECRET == "refresh-secret"
MaxSessions == 10

Null == {}
Some(x) == {x}

(* ------------------------------ jwt.ts --------------------------------- *)
DigitValue(c) ==
  CASE c = "0" -> 0 [] c = "1" -> 1 [] c = "2" -> 2 [] c = "3" -> 3
    [] c = "4" -> 4 [] c = "5" -> 5 [] c = "6" -> 6 [] c = "7" -> 7
    [] c = "8" -> 8 [] c = "9" -> 9 [] OTHER -> -1

\* parseInt(s, 10): white space at the start is skipped, one sign is read, then the
\* longest run of decimal digits; what follows the run is ignored; NaN without
\* a digit. NaN is written as the one integer no parse of these strings returns.
NaN == 0 - 2147483647

RECURSIVE TrimStart(_)
TrimStart(s) == IF s # <<>> /\ s[1] = " " THEN TrimStart(Tail(s)) ELSE s

RECURSIVE LeadingDigits(_)
LeadingDigits(s) ==
  IF s = <<>> THEN <<>>
  ELSE IF DigitValue(s[1]) < 0 THEN <<>>
  ELSE <<s[1]>> \o LeadingDigits(Tail(s))

RECURSIVE DigitsValue(_)
DigitsValue(s) ==
  IF s = <<>> THEN 0
  ELSE DigitsValue(SubSeq(s, 1, Len(s) - 1)) * 10 + DigitValue(s[Len(s)])

ParseInt(s) ==
  LET t == TrimStart(s)
      signed == IF t = <<>> THEN FALSE ELSE t[1] \in {"-", "+"}
      digits == LeadingDigits(IF signed THEN Tail(t) ELSE t)
  IN IF digits = <<>> THEN NaN
     ELSE IF signed THEN (IF t[1] = "-" THEN 0 - DigitsValue(digits) ELSE DigitsValue(digits))
     ELSE DigitsValue(digits)

\* value * k in floating point: NaN stays NaN
Times(value, k) == IF value = NaN THEN NaN ELSE value * k

\* the minutes returned as they are
ParseDurationNoMinutes(duration) ==
  LET unit == IF duration = <<>> THEN "" ELSE duration[Len(duration)]
      value == ParseInt(SubSeq(duration, 1, Len(duration) - 1))
  IN CASE unit = "s" -> value
       [] unit = "m" -> value
       [] unit = "h" -> Times(value, 60 * 60)
       [] unit = "d" -> Times(value, 24 * 60 * 60)
       [] OTHER -> 7 * 24 * 60 * 60

\* slice(-1) of the empty string is the empty string
ParseDuration(duration) ==
  LET unit == IF duration = <<>> THEN "" ELSE duration[Len(duration)]
      value == ParseInt(SubSeq(duration, 1, Len(duration) - 1))
  IN CASE unit = "s" -> value
       [] unit = "m" -> Times(value, 60)
       [] unit = "h" -> Times(value, 60 * 60)
       [] unit = "d" -> Times(value, 24 * 60 * 60)
       [] OTHER -> 7 * 24 * 60 * 60

\* jwt.sign is deterministic: the string is a function of payload, key, iat, exp.
SignAt(type, userId, email, key, expiresIn, t) ==
  [type |-> type, userId |-> userId, email |-> email, key |-> key,
   iat |-> t, exp |-> t + expiresIn]

Sign(type, userId, email, key, expiresIn) == SignAt(type, userId, email, key, expiresIn, now)

GenerateAccessToken(userId, email) ==
  Sign("access", userId, email, JWT_ACCESS_SECRET, ParseDuration(JWT_ACCESS_EXPIRES_IN))

GenerateRefreshToken(userId, email) ==
  Sign("refresh", userId, email, JWT_REFRESH_SECRET, ParseDuration(JWT_REFRESH_EXPIRES_IN))

\* jwt.verify throws on a bad signature or when now >= exp; the catch returns null.
JwtVerify(token, key) == token.key = key /\ now < token.exp

\* the payload returned whatever its type
VerifyAccessTokenAnyKind(token) ==
  IF JwtVerify(token, JWT_ACCESS_SECRET) THEN Some(token) ELSE Null

VerifyAccessToken(token) ==
  IF JwtVerify(token, JWT_ACCESS_SECRET) /\ token.type = "access" THEN Some(token) ELSE Null

VerifyRefreshToken(token) ==
  IF JwtVerify(token, JWT_REFRESH_SECRET) /\ token.type = "refresh" THEN Some(token) ELSE Null

GetExpirationDate(duration) == now + ParseDuration(duration)

(* --------------------------- password.ts ------------------------------- *)
HashPassword(password) == <<"hash", password>>
ComparePassword(password, hash) == hash = <<"hash", password>>
NoHash == <<>>

(* -------------------------- errorHandler.ts ---------------------------- *)
Pending == [code |-> 0, msg |-> ""]
Ok(code) == [code |-> code, msg |-> "ok"]
AppError(message, statusCode) == [code |-> statusCode, msg |-> message]
\* PrismaClientKnownRequestError as the global handler answers it
\* errorHandler without its P2002 branch: the error falls through to the last answer
UniqueViolationUnhandled(field) == [code |-> 500, msg |-> "Internal server error"]

UniqueViolation(field) ==
  [code |-> 409, msg |-> IF field = "email" THEN "A record with this email already exists"
                          ELSE "A record with this token already exists"]
RecordNotFound == [code |-> 404, msg |-> "Record not found"]
\* `Account is ${status}`, 403
AccountIs(status) ==
  [code |-> 403, msg |-> IF status = "suspended" THEN "Account is suspended"
                          ELSE IF status = "deleted" THEN "Account is deleted"
                          ELSE "Account is active"]

(* --------------------------- schemas.ts -------------------------------- *)
ToLowerCase(e) == IF e = "A@x.io" THEN "a@x.io" ELSE e
Emails == {ToLowerCase(e) : e \in RawEmails}

(* ------------------------------ state ---------------------------------- *)
NoToken == [type |-> "none", userId |-> 0, email |-> "", key |-> "", iat |-> 0, exp |-> 0]

\* A request slot: the handler it runs, where it stands, its arguments and locals.
Idle ==
  [op |-> "none", pc |-> "idle", email |-> "", password |-> "", newPassword |-> "",
   token |-> NoToken, userId |-> 0, sessionId |-> 0,
   user |-> {}, stored |-> {}, tok |-> NoToken, evict |-> {}, payload |-> {}, ip |-> "",
   remaining |-> {}, retryAfter |-> {},
   duration |-> <<>>, seconds |-> 0,
   result |-> Pending]

Init ==
  /\ now = 0
  /\ ms = 0
  /\ users = <<>>
  /\ tokens = {}
  /\ nextId = 1
  /\ calls = [p \in Procs |-> Idle]
  /\ store = [k \in Ips |-> Null]
  /\ audit = [k \in Ips |-> Null]

UserIds == DOMAIN users
InFlight(q) == calls[q].pc \notin {"idle", "done"}
Quiet == \A q \in Procs : ~InFlight(q)
\* env: how the handlers are driven. solo: calls do not overlap (a call starts only
\* when none is in flight); emails: the addresses callers submit; horizon: the last
\* second of the run; held: which stored tokens callers present; passwords: the
\* passwords accounts are registered with.
StartOK(p, env) == ~InFlight(p) /\ (env.solo => Quiet)


Begin(p, op, pc) == [Idle EXCEPT !.op = op, !.pc = pc]
Finish(c, res) == [c EXCEPT !.pc = "done", !.result = res]

UserByEmail(email) == {[id |-> u, email |-> users[u].email, passwordHash |-> users[u].passwordHash,
                        status |-> users[u].status] : u \in {v \in UserIds : users[v].email = email}}
UserById(id) == {[id |-> u, email |-> users[u].email, passwordHash |-> users[u].passwordHash,
                  status |-> users[u].status] : u \in {v \in UserIds : v = id}}
RowByToken(token) == {r \in tokens : r.token = token}
RowById(id) == {r \in tokens : r.id = id}
Revoked(r) == r.revokedAt # Null
Live(r) == ~Revoked(r) /\ r.expiresAt > now
The(S) == CHOOSE x \in S : TRUE

(* ----------------------- storeRefreshToken ----------------------------- *)
\* findMany({userId, revokedAt: null}, orderBy createdAt desc, skip 10): the rows
\* beyond the 10 newest; rows with one createdAt come in an order the store picks.
\* orderBy createdAt asc: the rows beyond the 10 oldest
BeyondAsc(userId) ==
  LET live == {r \in tokens : r.userId = userId /\ ~Revoked(r)}
      n == Cardinality(live)
  IN IF n <= MaxSessions THEN {{}}
     ELSE {{r.id : r \in E} : E \in {F \in SUBSET live :
              /\ Cardinality(F) = n - MaxSessions
              /\ \A e \in F, k \in live \ F : e.createdAt >= k.createdAt}}

Beyond(userId) ==
  LET live == {r \in tokens : r.userId = userId /\ ~Revoked(r)}
      n == Cardinality(live)
  IN IF n <= MaxSessions THEN {{}}
     ELSE {{r.id : r \in E} : E \in {F \in SUBSET live :
              /\ Cardinality(F) = n - MaxSessions
              /\ \A e \in F, k \in live \ F : e.createdAt <= k.createdAt}}

SuccessCode(op) == IF op = "register" THEN 201 ELSE 200

\* data: {revokedAt: new Date()} on one row. revokedBy is no column of the table: it
\* keeps the code path that first revoked the row, for the properties to refer to.
Revoke(r, path) ==
  [r EXCEPT !.revokedAt = Some(now), !.revokedBy = IF Revoked(r) THEN @ ELSE path]

\* the where clause inverted: only rows already revoked are matched
RevokeAllInverted(userId, path) ==
  {IF r.userId = userId /\ Revoked(r) THEN Revoke(r, path) ELSE r : r \in tokens}

\* the where clause without its userId: the rows of every account are matched
RevokeAllEveryAccount(userId, path) ==
  {IF ~Revoked(r) THEN Revoke(r, path) ELSE r : r \in tokens}

RevokeAllUserTokens(userId, path) ==
  {IF r.userId = userId /\ ~Revoked(r) THEN Revoke(r, path) ELSE r : r \in tokens}

StoreRefreshToken(p) ==
  LET c == calls[p] IN
  /\ c.pc \in {"store_create", "store_list", "store_delete"}
  /\ UNCHANGED <<limits, now, ms, users>>
  /\ CASE c.pc = "store_create" ->
            IF RowByToken(c.tok) # {}
            THEN /\ calls' = [calls EXCEPT ![p] = Finish(c, UniqueViolation("token"))]
                 /\ UNCHANGED <<tokens, nextId>>
            ELSE /\ tokens' = tokens \cup
                       {[id |-> nextId, token |-> c.tok, userId |-> c.userId, createdAt |-> now,
                         expiresAt |-> GetExpirationDate(JWT_REFRESH_EXPIRES_IN), revokedAt |-> Null, revokedBy |-> ""]}
                 /\ nextId' = nextId + 1
                 /\ calls' = [calls EXCEPT ![p].pc = "store_list"]
       [] c.pc = "store_list" ->
            /\ \E ids \in Beyond(c.userId) :
                 calls' = [calls EXCEPT ![p] =
                             IF ids = {} THEN Finish(c, Ok(SuccessCode(c.op)))
                             ELSE [c EXCEPT !.pc = "store_delete", !.evict = ids]]
            /\ UNCHANGED <<tokens, nextId>>
       [] c.pc = "store_delete" ->
            /\ tokens' = {r \in tokens : r.id \notin c.evict}
            /\ calls' = [calls EXCEPT ![p] = Finish(c, Ok(SuccessCode(c.op)))]
            /\ UNCHANGED nextId

(* ----------------------------- register -------------------------------- *)
RegisterFind(p, env) ==
  \E raw \in env.emails, pw \in env.passwords :
    LET email == ToLowerCase(raw)
        c == [Begin(p, "register", "reg_create") EXCEPT !.email = email, !.password = pw] IN
    /\ StartOK(p, env)
    /\ calls' = [calls EXCEPT ![p] =
                   IF UserByEmail(email) # {}
                   THEN Finish(c, AppError("Email already registered", 409)) ELSE c]
    /\ UNCHANGED <<limits, now, ms, users, tokens, nextId>>

RegisterCreate(p) ==
  LET c == calls[p] IN
  /\ c.pc = "reg_create"
  /\ IF UserByEmail(c.email) # {}
     THEN /\ calls' = [calls EXCEPT ![p] = Finish(c, UniqueViolation("email"))]
          /\ UNCHANGED users
     ELSE /\ users' = Append(users, [email |-> c.email, passwordHash |-> HashPassword(c.password),
                                     status |-> "active", lastLoginAt |-> Null,
                                     previousHash |-> NoHash])
          /\ calls' = [calls EXCEPT ![p].pc = "store_create", ![p].userId = Len(users) + 1,
                                    ![p].tok = GenerateRefreshToken(Len(users) + 1, c.email)]
  /\ UNCHANGED <<limits, now, ms, tokens, nextId>>

Register(p, env) == RegisterFind(p, env) \/ RegisterCreate(p)

(* ------------------------------- login --------------------------------- *)
\* the checks between the lookup and the first write: c is the call, c.user what
\* findUnique returned
\* a wrong password answered with a message of its own
LoginCheckLeaky(c) ==
  IF c.user = {} THEN Finish(c, AppError("Invalid email or password", 401))
  ELSE IF The(c.user).passwordHash = NoHash
    THEN Finish(c, AppError("Account uses social login. Please sign in with your provider.", 401))
  ELSE IF ~ComparePassword(c.password, The(c.user).passwordHash)
    THEN Finish(c, AppError("Invalid password", 401))
  ELSE IF The(c.user).status # "active"
    THEN Finish(c, AccountIs(The(c.user).status))
  ELSE [c EXCEPT !.userId = The(c.user).id]

\* the status check left out
LoginCheckNoStatus(c) ==
  IF c.user = {} THEN Finish(c, AppError("Invalid email or password", 401))
  ELSE IF The(c.user).passwordHash = NoHash
    THEN Finish(c, AppError("Account uses social login. Please sign in with your provider.", 401))
  ELSE IF ~ComparePassword(c.password, The(c.user).passwordHash)
    THEN Finish(c, AppError("Invalid email or password", 401))
  ELSE [c EXCEPT !.userId = The(c.user).id]

LoginCheck(c) ==
  IF c.user = {} THEN Finish(c, AppError("Invalid email or password", 401))
  ELSE IF The(c.user).passwordHash = NoHash
    THEN Finish(c, AppError("Account uses social login. Please sign in with your provider.", 401))
  ELSE IF ~ComparePassword(c.password, The(c.user).passwordHash)
    THEN Finish(c, AppError("Invalid email or password", 401))
  ELSE IF The(c.user).status # "active"
    THEN Finish(c, AccountIs(The(c.user).status))
  ELSE [c EXCEPT !.userId = The(c.user).id]

LoginFind(p, env) ==
  \E raw \in env.emails, pw \in Passwords :
    LET email == ToLowerCase(raw)
        c == [Begin(p, "login", "login_update") EXCEPT !.email = email, !.password = pw,
                                                       !.user = UserByEmail(email)] IN
    /\ StartOK(p, env)
    /\ calls' = [calls EXCEPT ![p] = LoginCheck(c)]
    /\ UNCHANGED <<limits, now, ms, users, tokens, nextId>>

LoginUpdate(p) ==
  LET c == calls[p] IN
  /\ c.pc = "login_update"
  /\ users' = [users EXCEPT ![c.userId].lastLoginAt = Some(now)]
  /\ calls' = [calls EXCEPT ![p].pc = "store_create",
                            ![p].tok = GenerateRefreshToken(c.userId, The(c.user).email)]
  /\ UNCHANGED <<limits, now, ms, tokens, nextId>>

Login(p, env) == LoginFind(p, env) \/ LoginUpdate(p)

(* ------------------------------ refresh -------------------------------- *)
\* Token strings a caller can present: those of the stored rows (of the env.held
\* newest rows, of all when it is 0), a string that does not verify, and a
\* well-signed string of this second (stored or not).
TokenInputs(env) ==
  {r.token : r \in {x \in tokens : env.held = 0 \/ nextId - x.id <= env.held}}
    \cup {NoToken}
    \cup {GenerateRefreshToken(u, users[u].email) : u \in UserIds}

\* the lookup with a status failure that marks the presented row revoked
RefreshFindConsume(p, env) ==
  \E t \in TokenInputs(env) :
    LET payload == VerifyRefreshToken(t)
        stored == IF payload = Null THEN {} ELSE RowByToken(t)
        owner == IF stored = {} THEN {} ELSE UserById(The(stored).userId)
        c == [Begin(p, "refresh", "refresh_rotate") EXCEPT !.token = t, !.stored = stored,
                                                           !.user = owner] IN
    /\ StartOK(p, env)
    /\ calls' = [calls EXCEPT ![p] =
         IF payload = Null THEN Finish(c, AppError("Invalid or expired refresh token", 401))
         ELSE IF stored = {} THEN Finish(c, AppError("Refresh token not found", 401))
         ELSE IF Revoked(The(stored)) THEN [c EXCEPT !.pc = "refresh_revoke_all"]
         ELSE IF The(stored).expiresAt < now THEN [c EXCEPT !.pc = "refresh_delete"]
         ELSE IF The(owner).status # "active" THEN Finish(c, AccountIs(The(owner).status))
         ELSE [c EXCEPT !.userId = The(payload).userId]]
    /\ tokens' = IF payload # Null /\ stored # {} /\ ~Revoked(The(stored))
                     /\ The(stored).expiresAt >= now /\ The(owner).status # "active"
                  THEN {IF r.id = The(stored).id THEN Revoke(r, "rotation") ELSE r : r \in tokens}
                  ELSE tokens
    /\ UNCHANGED <<limits, now, ms, users, nextId>>

RefreshFind(p, env) ==
  \E t \in TokenInputs(env) :
    LET payload == VerifyRefreshToken(t)
        stored == IF payload = Null THEN {} ELSE RowByToken(t)
        owner == IF stored = {} THEN {} ELSE UserById(The(stored).userId)
        c == [Begin(p, "refresh", "refresh_rotate") EXCEPT !.token = t, !.stored = stored,
                                                           !.user = owner] IN
    /\ StartOK(p, env)
    /\ calls' = [calls EXCEPT ![p] =
         IF payload = Null THEN Finish(c, AppError("Invalid or expired refresh token", 401))
         ELSE IF stored = {} THEN Finish(c, AppError("Refresh token not found", 401))
         ELSE IF Revoked(The(stored)) THEN [c EXCEPT !.pc = "refresh_revoke_all"]
         ELSE IF The(stored).expiresAt < now THEN [c EXCEPT !.pc = "refresh_delete"]
         ELSE IF The(owner).status # "active" THEN Finish(c, AccountIs(The(owner).status))
         ELSE [c EXCEPT !.userId = The(payload).userId]]
    /\ UNCHANGED <<limits, now, ms, users, tokens, nextId>>

\* the rotation without its update of revokedAt
RefreshApplyNoMark(p) ==
  LET c == calls[p]
      row == The(c.stored) IN
  /\ c.pc \in {"refresh_revoke_all", "refresh_delete", "refresh_rotate"}
  /\ UNCHANGED <<limits, now, ms, users, nextId>>
  /\ CASE c.pc = "refresh_revoke_all" ->
            /\ tokens' = RevokeAllUserTokens(row.userId, "theft")
            /\ calls' = [calls EXCEPT ![p] = Finish(c, AppError("Refresh token has been revoked", 401))]
       [] c.pc = "refresh_delete" ->
            IF RowById(row.id) = {}
            THEN /\ calls' = [calls EXCEPT ![p] = Finish(c, RecordNotFound)]
                 /\ UNCHANGED tokens
            ELSE /\ tokens' = {r \in tokens : r.id # row.id}
                 /\ calls' = [calls EXCEPT ![p] = Finish(c, AppError("Refresh token has expired", 401))]
       [] c.pc = "refresh_rotate" ->
            IF RowById(row.id) = {}
            THEN /\ calls' = [calls EXCEPT ![p] = Finish(c, RecordNotFound)]
                 /\ UNCHANGED tokens
            ELSE /\ UNCHANGED tokens
                 /\ calls' = [calls EXCEPT ![p].pc = "store_create",
                                ![p].tok = GenerateRefreshToken(c.token.userId, c.token.email)]

RefreshApply(p) ==
  LET c == calls[p]
      row == The(c.stored) IN
  /\ c.pc \in {"refresh_revoke_all", "refresh_delete", "refresh_rotate"}
  /\ UNCHANGED <<limits, now, ms, users, nextId>>
  /\ CASE c.pc = "refresh_revoke_all" ->
            /\ tokens' = RevokeAllUserTokens(row.userId, "theft")
            /\ calls' = [calls EXCEPT ![p] = Finish(c, AppError("Refresh token has been revoked", 401))]
       [] c.pc = "refresh_delete" ->
            IF RowById(row.id) = {}
            THEN /\ calls' = [calls EXCEPT ![p] = Finish(c, RecordNotFound)]
                 /\ UNCHANGED tokens
            ELSE /\ tokens' = {r \in tokens : r.id # row.id}
                 /\ calls' = [calls EXCEPT ![p] = Finish(c, AppError("Refresh token has expired", 401))]
       [] c.pc = "refresh_rotate" ->
            IF RowById(row.id) = {}
            THEN /\ calls' = [calls EXCEPT ![p] = Finish(c, RecordNotFound)]
                 /\ UNCHANGED tokens
            ELSE /\ tokens' = {IF r.id = row.id THEN Revoke(r, "rotation") ELSE r : r \in tokens}
                 /\ calls' = [calls EXCEPT ![p].pc = "store_create",
                                ![p].tok = GenerateRefreshToken(c.token.userId, c.token.email)]

RefreshTokens(p, env) == RefreshFind(p, env) \/ RefreshApply(p)

(* ------------------------------- logout -------------------------------- *)
LogoutFind(p, env) ==
  \E t \in TokenInputs(env) :
    LET stored == RowByToken(t)
        c == [Begin(p, "logout", "logout_update") EXCEPT !.token = t, !.stored = stored] IN
    /\ StartOK(p, env)
    /\ calls' = [calls EXCEPT ![p] =
         IF stored # {} /\ ~Revoked(The(stored)) THEN c ELSE Finish(c, Ok(200))]
    /\ UNCHANGED <<limits, now, ms, users, tokens, nextId>>

\* updateMany on the owner's rows in place of update on the one row
LogoutUpdateOwner(p) ==
  LET c == calls[p]
      row == The(c.stored) IN
  /\ c.pc = "logout_update"
  /\ tokens' = RevokeAllUserTokens(row.userId, "logout")
  /\ calls' = [calls EXCEPT ![p] = Finish(c, Ok(200))]
  /\ UNCHANGED <<limits, now, ms, users, nextId>>

LogoutUpdate(p) ==
  LET c == calls[p]
      row == The(c.stored) IN
  /\ c.pc = "logout_update"
  /\ IF RowById(row.id) = {}
     THEN /\ calls' = [calls EXCEPT ![p] = Finish(c, RecordNotFound)]
          /\ UNCHANGED tokens
     ELSE /\ tokens' = {IF r.id = row.id THEN Revoke(r, "logout") ELSE r : r \in tokens}
          /\ calls' = [calls EXCEPT ![p] = Finish(c, Ok(200))]
  /\ UNCHANGED <<limits, now, ms, users, nextId>>

Logout(p, env) == LogoutFind(p, env) \/ LogoutUpdate(p)

LogoutAll(p, env) ==
  \E u \in UserIds :
    /\ StartOK(p, env)
    /\ tokens' = RevokeAllUserTokens(u, "logoutAll")
    /\ calls' = [calls EXCEPT ![p] = Finish([Begin(p, "logoutAll", "done") EXCEPT !.userId = u], Ok(200))]
    /\ UNCHANGED <<limits, now, ms, users, nextId>>

(* --------------------------- changePassword ---------------------------- *)
\* the check for a missing hash left out
ChangePasswordFindNoSocial(p, env) ==
  \E u \in UserIds \cup {0}, cur \in Passwords, new \in Passwords :
    LET found == UserById(u)
        c == [Begin(p, "changePassword", "cp_update") EXCEPT !.userId = u, !.password = cur,
                                                  !.newPassword = new, !.user = found] IN
    /\ StartOK(p, env)
    /\ calls' = [calls EXCEPT ![p] =
         IF found = {} THEN Finish(c, AppError("User not found", 404))
         ELSE IF ~ComparePassword(cur, The(found).passwordHash)
           THEN Finish(c, AppError("Current password is incorrect", 401))
         ELSE c]
    /\ UNCHANGED <<limits, now, ms, users, tokens, nextId>>

ChangePasswordFind(p, env) ==
  \E u \in UserIds \cup {0}, cur \in Passwords, new \in Passwords :
    LET found == UserById(u)
        c == [Begin(p, "changePassword", "cp_update") EXCEPT !.userId = u, !.password = cur,
                                                  !.newPassword = new, !.user = found] IN
    /\ StartOK(p, env)
    /\ calls' = [calls EXCEPT ![p] =
         IF found = {} THEN Finish(c, AppError("User not found", 404))
         ELSE IF The(found).passwordHash = NoHash
           THEN Finish(c, AppError("Account uses social login. Cannot change password.", 400))
         ELSE IF ~ComparePassword(cur, The(found).passwordHash)
           THEN Finish(c, AppError("Current password is incorrect", 401))
         ELSE c]
    /\ UNCHANGED <<limits, now, ms, users, tokens, nextId>>

ChangePasswordApply(p) ==
  LET c == calls[p] IN
  /\ c.pc \in {"cp_update", "cp_revoke"}
  /\ UNCHANGED <<limits, now, ms, nextId>>
  /\ CASE c.pc = "cp_update" ->
            \* previousHash is no column either: the hash this update replaced
            /\ users' = [users EXCEPT ![c.userId].passwordHash = HashPassword(c.newPassword),
                                      ![c.userId].previousHash = users[c.userId].passwordHash]
            /\ calls' = [calls EXCEPT ![p].pc = "cp_revoke"]
            /\ UNCHANGED tokens
       [] c.pc = "cp_revoke" ->
            /\ tokens' = RevokeAllUserTokens(c.userId, "changePassword")
            /\ calls' = [calls EXCEPT ![p] = Finish(c, Ok(200))]
            /\ UNCHANGED users

ChangePassword(p, env) == ChangePasswordFind(p, env) \/ ChangePasswordApply(p)

(* ---------------------------- revokeSession ---------------------------- *)
\* findFirst({id}) without the userId
RevokeSessionFindAnyOwner(p, env) ==
  \E u \in UserIds, sid \in {r.id : r \in tokens} \cup {0} :
    LET found == {r \in tokens : r.id = sid}
        c == [Begin(p, "revokeSession", "rs_update") EXCEPT !.userId = u, !.sessionId = sid,
                                                            !.stored = found] IN
    /\ StartOK(p, env)
    /\ calls' = [calls EXCEPT ![p] =
         IF found = {} THEN Finish(c, AppError("Session not found", 404)) ELSE c]
    /\ UNCHANGED <<limits, now, ms, users, tokens, nextId>>

RevokeSessionFind(p, env) ==
  \E u \in UserIds, sid \in {r.id : r \in tokens} \cup {0} :
    LET found == {r \in tokens : r.id = sid /\ r.userId = u}
        c == [Begin(p, "revokeSession", "rs_update") EXCEPT !.userId = u, !.sessionId = sid,
                                                            !.stored = found] IN
    /\ StartOK(p, env)
    /\ calls' = [calls EXCEPT ![p] =
         IF found = {} THEN Finish(c, AppError("Session not found", 404)) ELSE c]
    /\ UNCHANGED <<limits, now, ms, users, tokens, nextId>>

RevokeSessionUpdate(p) ==
  LET c == calls[p] IN
  /\ c.pc = "rs_update"
  /\ IF RowById(c.sessionId) = {}
     THEN /\ calls' = [calls EXCEPT ![p] = Finish(c, RecordNotFound)]
          /\ UNCHANGED tokens
     ELSE /\ tokens' = {IF r.id = c.sessionId THEN Revoke(r, "revokeSession") ELSE r : r \in tokens}
          /\ calls' = [calls EXCEPT ![p] = Finish(c, Ok(200))]
  /\ UNCHANGED <<limits, now, ms, users, nextId>>

RevokeSession(p, env) == RevokeSessionFind(p, env) \/ RevokeSessionUpdate(p)

(* --------------------------- user.service.ts --------------------------- *)
\* updateMany({userId}, {revokedAt: now}): every row of the account, revoked or not
StampAllUserTokens(userId, path) ==
  {IF r.userId = userId THEN Revoke(r, path) ELSE r : r \in tokens}

\* the check for a missing hash left out
UpdateEmailFindNoSocial(p, env) ==
  \E u \in UserIds \cup {0}, raw \in env.emails, pw \in Passwords :
    LET found == UserById(u)
        c == [Begin(p, "updateEmail", "ue_check") EXCEPT !.userId = u, !.password = pw,
                                         !.email = ToLowerCase(raw), !.user = found] IN
    /\ StartOK(p, env)
    /\ calls' = [calls EXCEPT ![p] =
         IF found = {} THEN Finish(c, AppError("User not found", 404))
         ELSE IF ~ComparePassword(pw, The(found).passwordHash)
           THEN Finish(c, AppError("Invalid password", 401))
         ELSE c]
    /\ UNCHANGED <<limits, now, ms, users, tokens, nextId>>

UpdateEmailFind(p, env) ==
  \E u \in UserIds \cup {0}, raw \in env.emails, pw \in Passwords :
    LET found == UserById(u)
        c == [Begin(p, "updateEmail", "ue_check") EXCEPT !.userId = u, !.password = pw,
                                         !.email = ToLowerCase(raw), !.user = found] IN
    /\ StartOK(p, env)
    /\ calls' = [calls EXCEPT ![p] =
         IF found = {} THEN Finish(c, AppError("User not found", 404))
         ELSE IF The(found).passwordHash = NoHash
           THEN Finish(c, AppError("Account uses social login. Cannot change email.", 400))
         ELSE IF ~ComparePassword(pw, The(found).passwordHash)
           THEN Finish(c, AppError("Invalid password", 401))
         ELSE c]
    /\ UNCHANGED <<limits, now, ms, users, tokens, nextId>>

UpdateEmailApply(p) ==
  LET c == calls[p] IN
  /\ c.pc \in {"ue_check", "ue_update"}
  /\ UNCHANGED <<limits, now, ms, tokens, nextId>>
  /\ CASE c.pc = "ue_check" ->
            /\ calls' = [calls EXCEPT ![p] =
                 IF UserByEmail(c.email) # {} THEN Finish(c, AppError("Email already in use", 409))
                 ELSE [c EXCEPT !.pc = "ue_update"]]
            /\ UNCHANGED users
       [] c.pc = "ue_update" ->
            IF UserByEmail(c.email) # {}
            THEN /\ calls' = [calls EXCEPT ![p] = Finish(c, UniqueViolation("email"))]
                 /\ UNCHANGED users
            ELSE /\ users' = [users EXCEPT ![c.userId].email = c.email]
                 /\ calls' = [calls EXCEPT ![p] = Finish(c, Ok(200))]

UpdateEmail(p, env) == UpdateEmailFind(p, env) \/ UpdateEmailApply(p)

SuspendFind(p, env) ==
  \E u \in UserIds \cup {0} :
    LET found == UserById(u)
        c == [Begin(p, "suspendAccount", "sus_update") EXCEPT !.userId = u, !.user = found] IN
    /\ StartOK(p, env)
    /\ calls' = [calls EXCEPT ![p] =
         IF found = {} THEN Finish(c, AppError("User not found", 404)) ELSE c]
    /\ UNCHANGED <<limits, now, ms, users, tokens, nextId>>

SuspendApply(p) ==
  LET c == calls[p] IN
  /\ c.pc \in {"sus_update", "sus_revoke"}
  /\ UNCHANGED <<limits, now, ms, nextId>>
  /\ CASE c.pc = "sus_update" ->
            /\ users' = [users EXCEPT ![c.userId].status = "suspended"]
            /\ calls' = [calls EXCEPT ![p].pc = "sus_revoke"]
            /\ UNCHANGED tokens
       [] c.pc = "sus_revoke" ->
            /\ tokens' = StampAllUserTokens(c.userId, "suspendAccount")
            /\ calls' = [calls EXCEPT ![p] = Finish(c, Ok(200))]
            /\ UNCHANGED users

SuspendAccount(p, env) == SuspendFind(p, env) \/ SuspendApply(p)

ReactivateFind(p, env) ==
  \E u \in UserIds \cup {0} :
    LET found == UserById(u)
        c == [Begin(p, "reactivateAccount", "rea_update") EXCEPT !.userId = u, !.user = found] IN
    /\ StartOK(p, env)
    /\ calls' = [calls EXCEPT ![p] =
         IF found = {} THEN Finish(c, AppError("User not found", 404))
         ELSE IF The(found).status = "deleted"
           THEN Finish(c, AppError("Cannot reactivate deleted account", 400))
         ELSE c]
    /\ UNCHANGED <<limits, now, ms, users, tokens, nextId>>

\* the reactivation gives the account its revoked sessions back
ReactivateUpdateRestore(p) ==
  LET c == calls[p] IN
  /\ c.pc = "rea_update"
  /\ users' = [users EXCEPT ![c.userId].status = "active"]
  /\ tokens' = {IF r.userId = c.userId THEN [r EXCEPT !.revokedAt = Null] ELSE r : r \in tokens}
  /\ calls' = [calls EXCEPT ![p] = Finish(c, Ok(200))]
  /\ UNCHANGED <<limits, now, ms, nextId>>

ReactivateUpdate(p) ==
  LET c == calls[p] IN
  /\ c.pc = "rea_update"
  /\ users' = [users EXCEPT ![c.userId].status = "active"]
  /\ calls' = [calls EXCEPT ![p] = Finish(c, Ok(200))]
  /\ UNCHANGED <<limits, now, ms, tokens, nextId>>

ReactivateAccount(p, env) == ReactivateFind(p, env) \/ ReactivateUpdate(p)

DeleteFind(p, env) ==
  \E u \in UserIds \cup {0}, pw \in Passwords :
    LET found == UserById(u)
        c == [Begin(p, "deleteAccount", "del_update") EXCEPT !.userId = u, !.password = pw,
                                                             !.user = found] IN
    /\ StartOK(p, env)
    /\ calls' = [calls EXCEPT ![p] =
         IF found = {} THEN Finish(c, AppError("User not found", 404))
         ELSE IF The(found).passwordHash # NoHash /\ ~ComparePassword(pw, The(found).passwordHash)
           THEN Finish(c, AppError("Invalid password", 401))
         ELSE c]
    /\ UNCHANGED <<limits, now, ms, users, tokens, nextId>>

DeleteApply(p) ==
  LET c == calls[p] IN
  /\ c.pc \in {"del_update", "del_revoke"}
  /\ UNCHANGED <<limits, now, ms, nextId>>
  /\ CASE c.pc = "del_update" ->
            /\ users' = [users EXCEPT ![c.userId].status = "deleted"]
            /\ calls' = [calls EXCEPT ![p].pc = "del_revoke"]
            /\ UNCHANGED tokens
       [] c.pc = "del_revoke" ->
            /\ tokens' = StampAllUserTokens(c.userId, "deleteAccount")
            /\ calls' = [calls EXCEPT ![p] = Finish(c, Ok(200))]
            /\ UNCHANGED users

DeleteAccount(p, env) == DeleteFind(p, env) \/ DeleteApply(p)

(* ------------------------------- clock --------------------------------- *)
Tick(env) ==
  /\ now < env.horizon
  /\ now' = now + 1
  /\ ms' = 0
  /\ UNCHANGED <<limits, users, tokens, nextId, calls>>

\* Time passes between two requests: the clock moves on to a later instant of
\* env.instants.
Sleep(env) ==
  /\ \E t \in env.instants : t > now /\ now' = t
  /\ ms' = 0
  /\ UNCHANGED <<limits, users, tokens, nextId, calls>>

\* Time passes within the second: the clock moves on to a later millisecond of
\* env.millis.
Millis(env) ==
  /\ \E m \in env.millis : m > ms /\ ms' = m
  /\ UNCHANGED <<limits, now, users, tokens, nextId, calls>>

(* ---------------------------- rateLimit.ts ----------------------------- *)
authRateLimiter ==
  [windowMs |-> 15 * 60 * 1000, maxRequests |-> 10,
   message |-> "Too many authentication attempts, please try again in 15 minutes"]
apiRateLimiter ==
  [windowMs |-> 60 * 1000, maxRequests |-> 100,
   message |-> "Too many requests, please try again later"]

DateNow == now * 1000 + ms
\* next() was called: the request goes on to the route's handler
Passed == [code |-> 0, msg |-> "next"]

\* store.get(key) as the middleware uses it: nothing, or an entry
Entry(S, key) == S[key]

\* an entry past its resetTime gets a new window and goes on counting
RateLimitNoReset(S, options, key) ==
  LET entry == IF Entry(S, key) = Null
               THEN [count |-> 1, resetTime |-> DateNow + options.windowMs]
               ELSE IF The(S[key]).resetTime <= DateNow
               THEN [count |-> The(S[key]).count + 1, resetTime |-> DateNow + options.windowMs]
               ELSE [The(S[key]) EXCEPT !.count = @ + 1]
  IN [S EXCEPT ![key] = Some(entry)]

\* the Map after the middleware of one instance has run for key
RateLimit(S, options, key) ==
  LET entry == IF Entry(S, key) = Null \/ The(S[key]).resetTime <= DateNow
               THEN [count |-> 1, resetTime |-> DateNow + options.windowMs]
               ELSE [The(S[key]) EXCEPT !.count = @ + 1]
  IN [S EXCEPT ![key] = Some(entry)]

TooMany(S, options, key) == The(S[key]).count > options.maxRequests

\* audit is no part of the program: per key, the auth requests made since the one
\* that opened the current window of authRateLimiter.windowMs.
Audit(key) ==
  LET opens == audit[key] = Null
                 \/ DateNow >= The(audit[key]).start + authRateLimiter.windowMs
      entry == IF opens THEN [start |-> DateNow, asked |-> 1]
               ELSE [The(audit[key]) EXCEPT !.asked = @ + 1]
  IN [audit EXCEPT ![key] = Some(entry)]

\* the run stops counting at env.maxCount
CountBelow(env, key, n) ==
  IF Entry(store, key) = Null THEN TRUE ELSE The(store[key]).count + n <= env.maxCount

\* Math.ceil(a / b)
CeilDiv(a, b) == 0 - ((0 - a) \div b)

\* the headers the middleware of one instance sets after it has counted
Remaining(S, options, key) ==
  LET left == options.maxRequests - The(S[key]).count IN IF left > 0 THEN left ELSE 0

\* the seconds left rounded down
RetryAfterFloor(S, key) == (The(S[key]).resetTime - DateNow) \div 1000

RetryAfter(S, key) == CeilDiv(The(S[key]).resetTime - DateNow, 1000)

\* what one instance answers: 429 with Retry-After, or next()
Answer(c, S, options, key) ==
  IF TooMany(S, options, key)
  THEN Finish([c EXCEPT !.remaining = Some(Remaining(S, options, key)),
                        !.retryAfter = Some(RetryAfter(S, key))],
              AppError(options.message, 429))
  ELSE Finish([c EXCEPT !.remaining = Some(Remaining(S, options, key))], Passed)

\* a request to an /api route without a limiter of its own: apiRateLimiter only
ApiRequest(p, env) ==
  \E key \in Ips :
    LET S1 == RateLimit(store, apiRateLimiter, key)
        c == [Begin(p, "apiRequest", "done") EXCEPT !.ip = key] IN
    /\ StartOK(p, env)
    /\ CountBelow(env, key, 1)
    /\ store' = S1
    /\ calls' = [calls EXCEPT ![p] = Answer(c, S1, apiRateLimiter, key)]
    /\ UNCHANGED <<audit, now, ms, users, tokens, nextId>>

\* a request to /api/auth/register, /login or /google: apiRateLimiter, then
\* authRateLimiter when the first called next()
AuthRequest(p, env) ==
  \E key \in Ips :
    LET S1 == RateLimit(store, apiRateLimiter, key)
        S2 == RateLimit(S1, authRateLimiter, key)
        c == [Begin(p, "authRequest", "done") EXCEPT !.ip = key] IN
    /\ StartOK(p, env)
    /\ CountBelow(env, key, 2)
    /\ audit' = Audit(key)
    /\ IF TooMany(S1, apiRateLimiter, key)
       THEN /\ store' = S1
            /\ calls' = [calls EXCEPT ![p] = Answer(c, S1, apiRateLimiter, key)]
       ELSE /\ store' = S2
            /\ calls' = [calls EXCEPT ![p] = Answer(c, S2, authRateLimiter, key)]
    /\ UNCHANGED <<now, ms, users, tokens, nextId>>

\* the setInterval callback of either instance
Cleanup ==
  /\ \E k \in Ips : store[k] # Null /\ The(store[k]).resetTime <= DateNow
  /\ store' = [k \in Ips |-> {e \in store[k] : e.resetTime > DateNow}]
  /\ UNCHANGED <<audit, now, ms, users, tokens, nextId, calls>>

(* ------------------------- verify, as called --------------------------- *)
\* Strings a caller can send as a token: every type under every key, issued at
\* one of env.issued, and a string that is no token.
JwtKeys == {JWT_ACCESS_SECRET, JWT_REFRESH_SECRET, "other-secret"}
JwtInputs(env) ==
  {SignAt(type, 1, "a@x.io", key,
          ParseDuration(IF type = "access" THEN JWT_ACCESS_EXPIRES_IN
                                           ELSE JWT_REFRESH_EXPIRES_IN), t) :
     type \in {"access", "refresh"}, key \in JwtKeys,
     t \in {i \in env.issued : i <= now}}
    \cup {NoToken}

VerifyAccess(p, env) ==
  \E t \in JwtInputs(env) :
    /\ StartOK(p, env)
    /\ calls' = [calls EXCEPT ![p] =
         Finish([Begin(p, "verifyAccessToken", "done") EXCEPT
                   !.token = t, !.payload = VerifyAccessToken(t)], Ok(200))]
    /\ UNCHANGED <<limits, now, ms, users, tokens, nextId>>

VerifyRefresh(p, env) ==
  \E t \in JwtInputs(env) :
    /\ StartOK(p, env)
    /\ calls' = [calls EXCEPT ![p] =
         Finish([Begin(p, "verifyRefreshToken", "done") EXCEPT
                   !.token = t, !.payload = VerifyRefreshToken(t)], Ok(200))]
    /\ UNCHANGED <<limits, now, ms, users, tokens, nextId>>

(* --------------------------- specifications ---------------------------- *)
\* The session handlers, one request at a time.
SeqEnv ==
  [solo |-> TRUE, emails |-> OneEmail, horizon |-> MaxNow, held |-> 0, passwords |-> Passwords]

Next ==
  \/ Tick(SeqEnv)
  \/ \E p \in {"p1"} :
       \/ Register(p, SeqEnv)
       \/ Login(p, SeqEnv)
       \/ RefreshTokens(p, SeqEnv)
       \/ Logout(p, SeqEnv)
       \/ StoreRefreshToken(p)

Spec == Init /\ [][Next]_vars

\* The account handlers beside the session handlers, one request at a time.
AccountNext ==
  \/ Tick(SeqEnv)
  \/ \E p \in {"p1"} :
       \/ Register(p, SeqEnv)
       \/ Login(p, SeqEnv)
       \/ RefreshTokens(p, SeqEnv)
       \/ SuspendAccount(p, SeqEnv)
       \/ ReactivateAccount(p, SeqEnv)
       \/ DeleteAccount(p, SeqEnv)
       \/ StoreRefreshToken(p)

AccountSpec == Init /\ [][AccountNext]_vars

\* Password change beside the session handlers, one request at a time.
PasswordNext ==
  \/ Tick(SeqEnv)
  \/ \E p \in {"p1"} :
       \/ Register(p, SeqEnv)
       \/ Login(p, SeqEnv)
       \/ RefreshTokens(p, SeqEnv)
       \/ ChangePassword(p, SeqEnv)
       \/ StoreRefreshToken(p)

PasswordSpec == Init /\ [][PasswordNext]_vars

\* Registration and refresh, requests interleaved at their awaits.
RaceEnv ==
  [solo |-> FALSE, emails |-> OneEmail, horizon |-> MaxNow + 1, held |-> 0,
   passwords |-> {"Abcd1234!"}]

RaceNext ==
  \/ Tick(RaceEnv)
  \/ \E p \in Procs :
       \/ Register(p, RaceEnv)
       \/ RefreshTokens(p, RaceEnv)
       \/ StoreRefreshToken(p)

RaceSpec == Init /\ [][RaceNext]_vars

\* Registration and login, requests interleaved at their awaits.
SignupEnv ==
  [solo |-> FALSE, emails |-> OneEmail, horizon |-> MaxNow, held |-> 0, passwords |-> Passwords]

SignupNext ==
  \/ Tick(SignupEnv)
  \/ \E p \in Procs :
       \/ Register(p, SignupEnv)
       \/ Login(p, SignupEnv)
       \/ StoreRefreshToken(p)

SignupSpec == Init /\ [][SignupNext]_vars

\* An account one session short of the cap: registered at second 0, logged in at
\* each second after it.
CapStart == MaxSessions - 2
CapEnv ==
  [solo |-> TRUE, emails |-> OneEmail, horizon |-> CapStart + CapTicks, held |-> CapHeld,
   passwords |-> Passwords]

CapInit ==
  /\ now = CapStart
  /\ ms = 0
  /\ users = <<[email |-> "a@x.io", passwordHash |-> HashPassword("Abcd1234!"),
                status |-> "active", lastLoginAt |-> Some(CapStart), previousHash |-> NoHash]>>
  /\ tokens = {[id |-> t + 1,
                token |-> SignAt("refresh", 1, "a@x.io", JWT_REFRESH_SECRET,
                                 ParseDuration(JWT_REFRESH_EXPIRES_IN), t),
                userId |-> 1, createdAt |-> t,
                expiresAt |-> t + ParseDuration(JWT_REFRESH_EXPIRES_IN),
                revokedAt |-> Null, revokedBy |-> ""] : t \in 0..CapStart}
  /\ nextId = CapStart + 2
  /\ calls = [p \in Procs |-> Idle]
  /\ store = [k \in Ips |-> Null]
  /\ audit = [k \in Ips |-> Null]

CapNext ==
  \/ Tick(CapEnv)
  \/ \E p \in {"p1"} :
       \/ Login(p, CapEnv)
       \/ RefreshTokens(p, CapEnv)
       \/ StoreRefreshToken(p)

CapSpec == CapInit /\ [][CapNext]_vars

(* ----------------------------- properties ------------------------------ *)
Done(p, op) == calls[p].op = op /\ calls[p].pc = "done"
Code(p) == calls[p].result.code
\* the refresh call of p found its token's row not revoked, not expired, its owner active
ReadLive(p) ==
  /\ calls[p].stored # {}
  /\ ~Revoked(The(calls[p].stored))
  /\ The(calls[p].stored).expiresAt >= now
  /\ The(calls[p].user).status = "active"
UserRows(u) == {r \in tokens : r.userId = u}

\* C1: two refreshTokens(T) calls that overlap on a live T never both succeed,
\* issuing two replacement rows from the one T (RaceSpec).
NoDoubleRotation ==
  \A p, q \in Procs :
    (/\ p # q
     /\ Done(p, "refresh") /\ Done(q, "refresh")
     /\ calls[p].token = calls[q].token
     /\ ReadLive(p) /\ ReadLive(q))
    => ~(/\ Code(p) = 200 /\ Code(q) = 200
         /\ calls[p].tok # calls[q].tok
         /\ \A c \in {calls[p], calls[q]} : \E r \in RowByToken(c.tok) : ~Revoked(r))

\* C2: a refreshTokens(T) call that finds T live and its account active succeeds,
\* returns T' different from T, leaves T's row revoked and a live row for T' owned
\* by T's account (Spec).
RefreshOnceRotates ==
  \A p \in Procs :
    (Done(p, "refresh") /\ ReadLive(p))
    => /\ Code(p) = 200
       /\ calls[p].tok # calls[p].token
       /\ \A r \in RowByToken(calls[p].token) : Revoked(r)
       /\ \E r \in RowByToken(calls[p].tok) :
            Live(r) /\ r.userId = The(calls[p].stored).userId

\* C3: a refreshTokens call that finds its token's row revoked fails with 401 and
\* leaves the owning account without any non-revoked row; so after a replayed
\* token A the token B rotated from it is refused as well (Spec).
TheftDetection ==
  \A p \in Procs :
    (Done(p, "refresh") /\ calls[p].stored # {} /\ Revoked(The(calls[p].stored)))
    => /\ Code(p) = 401
       /\ \A r \in UserRows(The(calls[p].stored).userId) : Revoked(r)

\* refresh(B) refused after the replay of A revoked it
TheftWitness ==
  \E p \in Procs :
    /\ Done(p, "refresh") /\ Code(p) = 401
    /\ calls[p].stored # {}
    /\ The(calls[p].stored).revokedBy = "theft"

\* the step in which p's call of op begins: its first store read
Starts(p, op) == ~InFlight(p) /\ calls'[p] # calls[p] /\ calls'[p].op = op
RowIds == {r.id : r \in tokens}

\* C4: logout(T) on a non-revoked T revokes T's row and no other, and a later
\* refreshTokens(T) is refused; logout on a string without a row or with a revoked
\* row answers without error and leaves every row as it was (Spec).
LogoutContract ==
  /\ [](\A p \in Procs :
          (/\ Done(p, "refresh") /\ calls[p].stored # {}
           /\ The(calls[p].stored).revokedBy = "logout") => Code(p) = 401)
  /\ [][\A p \in Procs :
          /\ Starts(p, "logout") =>
               /\ tokens' = tokens
               /\ IF \E r \in RowByToken(calls'[p].token) : ~Revoked(r)
                  THEN calls'[p].pc = "logout_update"
                  ELSE calls'[p].pc = "done" /\ calls'[p].result = Ok(200)
          /\ calls[p].pc = "logout_update" /\ calls'[p] # calls[p] =>
               /\ calls'[p].pc = "done" /\ calls'[p].result = Ok(200)
               /\ {r.id : r \in tokens'} = RowIds
               /\ \A r \in tokens : r.token # calls[p].token => r \in tokens'
               /\ \A r \in tokens' : r.token = calls[p].token => r.revokedAt # Null]_vars

\* refresh(T) refused after logout(T)
LogoutWitness ==
  \E p \in Procs :
    /\ Done(p, "refresh") /\ Code(p) = 401
    /\ calls[p].stored # {}
    /\ The(calls[p].stored).revokedBy = "logout"

\* C8: a login for an email without account and a login with a wrong password for
\* an account that has a hash get the same answer, 401 with the one generic message,
\* and neither changes the store (Spec).
LoginUniformFailure ==
  [][\A p \in Procs :
       Starts(p, "login") =>
         LET found == UserByEmail(calls'[p].email) IN
         (\/ found = {}
          \/ /\ The(found).passwordHash # NoHash
             /\ ~ComparePassword(calls'[p].password, The(found).passwordHash))
         => /\ calls'[p].pc = "done"
            /\ calls'[p].result = AppError("Invalid email or password", 401)
            /\ UNCHANGED <<users, tokens, nextId>>]_vars

\* a wrong password for an account with a hash has been answered 401
LoginFailureWitness ==
  \E p \in Procs :
    /\ Done(p, "login") /\ Code(p) = 401
    /\ calls[p].user # {}
    /\ ~ComparePassword(calls[p].password, The(calls[p].user).passwordHash)

\* C5: after a changePassword that succeeded, the account has no non-revoked row
\* and a refreshTokens with a token that call revoked is refused; a login with the
\* password now stored succeeds and a login with the replaced one, a different
\* password, gets 401 (PasswordSpec, no two calls overlapping).
PasswordChangeEffective ==
  \A p \in Procs :
    /\ (Done(p, "changePassword") /\ Code(p) = 200)
         => \A r \in UserRows(calls[p].userId) : Revoked(r)
    /\ (/\ Done(p, "refresh") /\ calls[p].stored # {}
        /\ The(calls[p].stored).revokedBy = "changePassword") => Code(p) # 200
    /\ (/\ Done(p, "login") /\ calls[p].user # {}
        /\ users[The(calls[p].user).id].previousHash
             \notin {NoHash, users[The(calls[p].user).id].passwordHash})
         => LET u == users[The(calls[p].user).id] IN
            /\ ComparePassword(calls[p].password, u.passwordHash) => Code(p) = 200
            /\ ComparePassword(calls[p].password, u.previousHash) => Code(p) = 401

\* C6: with no call in flight an account has at most 10 live rows; the eviction
\* step of storeRefreshToken finds 11 non-revoked rows of the account, removes one
\* row, the one with the oldest createdAt among them, and leaves 10 (CapSpec).
SessionCap ==
  /\ [](Quiet => \A u \in UserIds :
                   Cardinality({r \in UserRows(u) : Live(r)}) <= MaxSessions)
  /\ [][\A p \in Procs :
          (calls[p].pc = "store_delete" /\ calls'[p] # calls[p]) =>
            LET before == {r \in UserRows(calls[p].userId) : ~Revoked(r)}
                gone == tokens \ tokens' IN
            /\ Cardinality(before) = MaxSessions + 1
            /\ tokens' \subseteq tokens
            /\ Cardinality(gone) = 1
            /\ \A g \in gone : g \in before /\ \A r \in before : g.createdAt <= r.createdAt
            /\ Cardinality(before \cap tokens') = MaxSessions]_vars

\* a login that created the 11th row and evicted one has been answered
SessionCapWitness ==
  \E p \in Procs :
    /\ Done(p, "login") /\ Code(p) = 200
    /\ calls[p].evict # {}
    /\ Cardinality({r \in UserRows(calls[p].userId) : Live(r)}) = MaxSessions

\* C7: refreshTokens with a token that was not revoked when its account was
\* suspended, called while the account is suspended, is answered 403 (AccountSpec).
SuspendedRefreshForbidden ==
  \A p \in Procs :
    (/\ Done(p, "refresh") /\ calls[p].stored # {}
     /\ The(calls[p].stored).revokedBy = "suspendAccount"
     /\ users[The(calls[p].stored).userId].status = "suspended")
    => Code(p) = 403

\* C9: a login with the right password for an account that is suspended or deleted
\* is answered 403 in its first step and writes nothing, neither a row nor
\* lastLoginAt; a login answered 200 found the account active (AccountSpec).
LoginForbidden ==
  /\ [](\A p \in Procs :
          (Done(p, "login") /\ Code(p) = 200) => The(calls[p].user).status = "active")
  /\ [][\A p \in Procs :
          Starts(p, "login") =>
            LET found == UserByEmail(calls'[p].email) IN
            (/\ found # {}
             /\ ComparePassword(calls'[p].password, The(found).passwordHash)
             /\ The(found).status \in {"suspended", "deleted"})
            => /\ calls'[p].pc = "done"
               /\ calls'[p].result.code = 403
               /\ UNCHANGED <<users, tokens, nextId>>]_vars

\* the right password for a suspended or deleted account has been answered 403
LoginForbiddenWitness ==
  \E p \in Procs :
    /\ Done(p, "login") /\ Code(p) = 403
    /\ ComparePassword(calls[p].password, The(calls[p].user).passwordHash)
    /\ The(calls[p].user).status \in {"suspended", "deleted"}

\* C10: a register step that finds the email taken, at the lookup or at the create
\* that lost the race, is answered 409 and writes neither an account nor a row;
\* an email never has two accounts, and of two answered registers for one email
\* at most one got 201, every other 409 (SignupSpec).
RegisterConflict ==
  /\ [](/\ \A i, j \in UserIds : users[i].email = users[j].email => i = j
        /\ \A p \in Procs : Done(p, "register") =>
             /\ Code(p) \in {201, 409}
             /\ Cardinality(UserByEmail(calls[p].email)) = 1
        /\ \A p, q \in Procs :
             (/\ p # q /\ Done(p, "register") /\ Done(q, "register")
              /\ calls[p].email = calls[q].email)
             => ~(Code(p) = 201 /\ Code(q) = 201))
  /\ [][\A p \in Procs :
          /\ (Starts(p, "register") /\ UserByEmail(calls'[p].email) # {}) =>
               /\ calls'[p].pc = "done" /\ calls'[p].result.code = 409
               /\ UNCHANGED <<users, tokens, nextId>>
          /\ (/\ calls[p].pc = "reg_create" /\ calls'[p] # calls[p]
              /\ UserByEmail(calls[p].email) # {}) =>
               /\ calls'[p].pc = "done" /\ calls'[p].result.code = 409
               /\ UNCHANGED <<users, tokens, nextId>>]_vars

\* two overlapping registers for one email: the create of one lost to the other
RegisterRaceWitness ==
  \E p, q \in Procs :
    /\ Done(p, "register") /\ Code(p) = 201
    /\ Done(q, "register") /\ calls[q].result = UniqueViolation("email")
    /\ calls[p].email = calls[q].email

\* C11: a login that passed its checks and generated its pair is answered 200 and
\* its token has a row of the account; no issuance, by register, login or refresh,
\* hands storeRefreshToken a string that a stored row already carries (Spec).
IssuedTokensDistinct ==
  \A p \in Procs :
    /\ calls[p].pc = "store_create" => RowByToken(calls[p].tok) = {}
    /\ (Done(p, "login") /\ calls[p].tok # NoToken)
         => /\ Code(p) = 200
            /\ \E r \in RowByToken(calls[p].tok) : r.userId = calls[p].userId

(* the two verify functions, on every kind of string, around the expiries *)
Expiries == {0, ParseDuration(JWT_ACCESS_EXPIRES_IN), ParseDuration(JWT_REFRESH_EXPIRES_IN)}
Instants == {e + d : e \in Expiries, d \in (0 - 1)..(MaxNow + 1)} \cap Nat
JwtEnv ==
  [solo |-> FALSE, emails |-> OneEmail, horizon |-> MaxNow, held |-> 0,
   passwords |-> Passwords, instants |-> Instants, issued |-> 0..MaxNow]

JwtNext ==
  \/ Sleep(JwtEnv)
  \/ \E p \in {"p1"} :
       \/ VerifyAccess(p, JwtEnv)
       \/ VerifyRefresh(p, JwtEnv)

JwtSpec == Init /\ [][JwtNext]_vars

\* t is what generateAccessToken (generateRefreshToken) returned at second t.iat
AccessIssued(t) ==
  /\ t.iat \in 0..now
  /\ t = SignAt("access", t.userId, t.email, JWT_ACCESS_SECRET,
                ParseDuration(JWT_ACCESS_EXPIRES_IN), t.iat)
RefreshIssued(t) ==
  /\ t.iat \in 0..now
  /\ t = SignAt("refresh", t.userId, t.email, JWT_REFRESH_SECRET,
                ParseDuration(JWT_REFRESH_EXPIRES_IN), t.iat)

\* C12: verifyAccessToken answers the payload of its argument exactly when that is
\* an unexpired token generateAccessToken issued, and null otherwise, so for every
\* token generateRefreshToken issued; verifyRefreshToken likewise with the kinds
\* exchanged; neither answers anything but a payload or null (JwtSpec).
TokenKindIsolation ==
  [][\A p \in Procs :
       /\ Starts(p, "verifyAccessToken") =>
            LET t == calls'[p].token IN
            /\ calls'[p].payload \in {Null, Some(t)}
            /\ calls'[p].payload # Null <=> (AccessIssued(t) /\ now < t.exp)
            /\ RefreshIssued(t) => calls'[p].payload = Null
       /\ Starts(p, "verifyRefreshToken") =>
            LET t == calls'[p].token IN
            /\ calls'[p].payload \in {Null, Some(t)}
            /\ calls'[p].payload # Null <=> (RefreshIssued(t) /\ now < t.exp)
            /\ AccessIssued(t) => calls'[p].payload = Null]_vars

\* verifyAccessToken has answered null to an unexpired refresh token
TokenKindWitness ==
  \E p \in Procs :
    /\ Done(p, "verifyAccessToken")
    /\ RefreshIssued(calls[p].token) /\ now < calls[p].token.exp
    /\ calls[p].payload = Null

(* two accounts, each registered at second 0 and logged in again at second 1; *)
(* then sessions are revoked, one request at a time                           *)
TwoEmails == <<"a@x.io", "b@x.io">>
SessionEnv ==
  [solo |-> TRUE, emails |-> {TwoEmails[u] : u \in DOMAIN TwoEmails}, horizon |-> MaxNow + 1,
   held |-> 0, passwords |-> {"Abcd1234!"}]

SessionInit ==
  /\ now = 1
  /\ ms = 0
  /\ users = [u \in DOMAIN TwoEmails |->
                [email |-> TwoEmails[u], passwordHash |-> HashPassword("Abcd1234!"),
                 status |-> "active", lastLoginAt |-> Some(1), previousHash |-> NoHash]]
  /\ tokens = {[id |-> 2 * t + u, token |-> SignAt("refresh", u, TwoEmails[u], JWT_REFRESH_SECRET,
                                                   ParseDuration(JWT_REFRESH_EXPIRES_IN), t),
                userId |-> u, createdAt |-> t,
                expiresAt |-> t + ParseDuration(JWT_REFRESH_EXPIRES_IN),
                revokedAt |-> Null, revokedBy |-> ""] : u \in DOMAIN TwoEmails, t \in 0..1}
  /\ nextId = 5
  /\ calls = [p \in Procs |-> Idle]
  /\ store = [k \in Ips |-> Null]
  /\ audit = [k \in Ips |-> Null]

SessionNext ==
  \/ Tick(SessionEnv)
  \/ \E p \in {"p1"} :
       \/ RevokeSession(p, SessionEnv)
       \/ Logout(p, SessionEnv)

SessionSpec == SessionInit /\ [][SessionNext]_vars

\* C13: revokeSession(accountId, sessionId) whose row is missing or is another
\* account's is answered 404 at the lookup and writes nothing; when the row is the
\* account's, the update sets revokedAt on that row and leaves every other row as
\* it was (SessionSpec).
RevokeSessionOwned ==
  [][\A p \in Procs :
       /\ Starts(p, "revokeSession") =>
            /\ tokens' = tokens
            /\ IF \E r \in tokens : r.id = calls'[p].sessionId /\ r.userId = calls'[p].userId
               THEN calls'[p].pc = "rs_update"
               ELSE calls'[p].pc = "done" /\ calls'[p].result.code = 404
       /\ (calls[p].pc = "rs_update" /\ calls'[p] # calls[p]) =>
            /\ calls'[p].pc = "done" /\ calls'[p].result = Ok(200)
            /\ {r.id : r \in tokens'} = RowIds
            /\ \A r \in tokens : r.id # calls[p].sessionId => r \in tokens'
            /\ \A r \in tokens' : r.id = calls[p].sessionId =>
                 r.revokedAt # Null /\ r.userId = calls[p].userId]_vars

\* another account's session asked for: 404, the row still not revoked
RevokeSessionWitness ==
  \E p \in Procs :
    /\ Done(p, "revokeSession") /\ Code(p) = 404
    /\ \E r \in RowById(calls[p].sessionId) : r.userId # calls[p].userId /\ ~Revoked(r)

(* the two limiters as index.ts and the auth routes wire them *)
Windows == {0, apiRateLimiter.windowMs \div 1000, authRateLimiter.windowMs \div 1000}
LimiterEnv ==
  [solo |-> TRUE, emails |-> OneEmail, horizon |-> MaxNow, held |-> 0, passwords |-> Passwords,
   instants |-> {w + d : w \in Windows, d \in 0..MaxNow}, issued |-> {0},
   maxCount |-> MaxCount]

LimiterNext ==
  \/ Sleep(LimiterEnv)
  \/ Cleanup
  \/ \E p \in {"p1"} :
       \/ ApiRequest(p, LimiterEnv)
       \/ AuthRequest(p, LimiterEnv)

LimiterSpec == Init /\ [][LimiterNext]_vars

\* C14: an auth request is answered 429 exactly when it is beyond the tenth auth
\* request its IP made in the 15 minutes since the one that opened the window
\* (LimiterSpec).
AuthLimitTen ==
  \A p \in Procs :
    Done(p, "authRequest") =>
      (Code(p) = 429 <=> The(audit[calls[p].ip]).asked > authRateLimiter.maxRequests)

\* C15: a request handled by apiRateLimiter alone leaves what authRateLimiter
\* reads for the same key, counter and window end, as it was (LimiterSpec).
LimitersIndependent ==
  [][\A p \in Procs :
       Starts(p, "apiRequest") =>
         Entry(store', calls'[p].ip) = Entry(store, calls'[p].ip)]_vars

(* an account without password hash beside a registered one, one request at a time *)
\* The tables after the sign-in with a provider created account 1, passwordHash
\* null, and register created account 2, both at second 0: each holds the refresh
\* row it was issued. The requests come in the second after.
OAuthEmails == {"a@x.io", "b@x.io", "g@x.io"}
OAuthEnv ==
  [solo |-> TRUE, emails |-> OAuthEmails, horizon |-> MaxNow, held |-> 0,
   passwords |-> {"Abcd1234!"}]

OAuthInit ==
  /\ now = 1
  /\ ms = 0
  /\ users = <<[email |-> "g@x.io", passwordHash |-> NoHash, status |-> "active",
                lastLoginAt |-> Some(0), previousHash |-> NoHash],
               [email |-> "a@x.io", passwordHash |-> HashPassword("Abcd1234!"),
                status |-> "active", lastLoginAt |-> Null, previousHash |-> NoHash]>>
  /\ tokens = {[id |-> u,
                token |-> SignAt("refresh", u, users[u].email, JWT_REFRESH_SECRET,
                                 ParseDuration(JWT_REFRESH_EXPIRES_IN), 0),
                userId |-> u, createdAt |-> 0,
                expiresAt |-> ParseDuration(JWT_REFRESH_EXPIRES_IN),
                revokedAt |-> Null, revokedBy |-> ""] : u \in 1..2}
  /\ nextId = 3
  /\ calls = [p \in Procs |-> Idle]
  /\ store = [k \in Ips |-> Null]
  /\ audit = [k \in Ips |-> Null]

OAuthNext ==
  \E p \in {"p1"} :
    \/ Login(p, OAuthEnv)
    \/ ChangePassword(p, OAuthEnv)
    \/ UpdateEmail(p, OAuthEnv)
    \/ StoreRefreshToken(p)

OAuthSpec == OAuthInit /\ [][OAuthNext]_vars

\* C16: changePassword with a wrong current password is answered 401, and on an
\* account without hash 400; either way at its first step, hash and refresh rows
\* as they were (OAuthSpec).
ChangePasswordRefused ==
  [][\A p \in Procs :
       Starts(p, "changePassword") =>
         LET found == UserById(calls'[p].userId) IN
         /\ (found # {} /\ The(found).passwordHash = NoHash)
              => /\ calls'[p].pc = "done" /\ calls'[p].result.code = 400
                 /\ UNCHANGED <<users, tokens>>
         /\ (/\ found # {} /\ The(found).passwordHash # NoHash
             /\ ~ComparePassword(calls'[p].password, The(found).passwordHash))
              => /\ calls'[p].pc = "done" /\ calls'[p].result.code = 401
                 /\ UNCHANGED <<users, tokens>>]_vars

\* changePassword refused with 400 on the account without hash, its row not revoked
ChangePasswordRefusedWitness ==
  \E p \in Procs :
    /\ Done(p, "changePassword") /\ Code(p) = 400
    /\ users[calls[p].userId].passwordHash = NoHash
    /\ \E r \in UserRows(calls[p].userId) : ~Revoked(r)

\* C17: a login for an account without hash never generates a token pair, whatever
\* the password; changePassword and updateEmail on such an account are answered
\* 400 at their first step and leave accounts and refresh rows as they were
\* (OAuthSpec).
NoPasswordFlows ==
  /\ [](\A p \in Procs :
          (/\ calls[p].op = "login" /\ calls[p].user # {}
           /\ The(calls[p].user).passwordHash = NoHash)
          => /\ calls[p].pc = "done" /\ Code(p) # 200
             /\ calls[p].tok = NoToken)
  /\ [][\A p \in Procs :
          (/\ Starts(p, "changePassword") \/ Starts(p, "updateEmail") \/ Starts(p, "login")
           /\ calls'[p].user # {}
           /\ The(calls'[p].user).passwordHash = NoHash)
          => /\ calls'[p].pc = "done"
             /\ calls'[p].op # "login" => calls'[p].result.code = 400
             /\ UNCHANGED <<users, tokens, nextId>>]_vars

\* updateEmail refused with 400 on the account without hash
NoPasswordFlowsWitness ==
  \E p \in Procs :
    /\ Done(p, "updateEmail") /\ Code(p) = 400
    /\ users[calls[p].userId].passwordHash = NoHash


\* ---- Theft detection as seen by the caller ----

\* what refreshTokens answers for a token that fails verification, has no row, or
\* has an expired row
InvalidTokenFailures ==
  {AppError("Invalid or expired refresh token", 401),
   AppError("Refresh token not found", 401),
   AppError("Refresh token has expired", 401)}

\* the refresh call of p found its token's row revoked
ReadRevoked(p) == calls[p].stored # {} /\ Revoked(The(calls[p].stored))

\* C18: a refreshTokens call that took the theft-detection branch is answered with
\* the status and message of an ordinary invalid-token failure (Spec).
TheftAnswerUniform ==
  \A p \in Procs :
    Done(p, "refresh") /\ ReadRevoked(p) => calls[p].result \in InvalidTokenFailures


(* ----------------------- authenticate middleware ----------------------- *)
sendUnauthorized(message) == [code |-> 401, msg |-> message]
sendForbidden(message) == [code |-> 403, msg |-> message]

\* What arrives as Authorization header: no Bearer header (NoToken), or a signed
\* string of either type under any key, for the account or for an id without account.
BearerInputs(env) ==
  JwtInputs(env)
    \cup {SignAt("access", 2, "b@x.io", JWT_ACCESS_SECRET,
                 ParseDuration(JWT_ACCESS_EXPIRES_IN), t) : t \in {i \in env.issued : i <= now}}

\* header test and verifyAccessToken, up to the await of findUnique
AuthenticateVerify(p, env) ==
  \E t \in BearerInputs(env) :
    LET payload == IF t = NoToken THEN Null ELSE VerifyAccessToken(t)
        c == [Begin(p, "authenticate", "auth_find") EXCEPT !.token = t, !.payload = payload] IN
    /\ StartOK(p, env)
    /\ calls' = [calls EXCEPT ![p] =
         IF t = NoToken THEN Finish(c, sendUnauthorized("Access token is required"))
         ELSE IF payload = Null
           THEN Finish(c, sendUnauthorized("Invalid or expired access token"))
         ELSE c]
    /\ UNCHANGED <<limits, now, ms, users, tokens, nextId>>

\* the status of the account is not looked at
AuthenticateFindNoStatus(p) ==
  LET c == calls[p]
      user == UserById(The(c.payload).userId) IN
  /\ c.pc = "auth_find"
  /\ calls' = [calls EXCEPT ![p] =
       IF user = {} THEN Finish(c, sendUnauthorized("User not found"))
       ELSE Finish([c EXCEPT !.user = user, !.userId = The(user).id,
                             !.email = The(user).email], Passed)]
  /\ UNCHANGED <<limits, now, ms, users, tokens, nextId>>

\* findUnique({id: payload.userId}) and what follows it; next() is the answer Passed
AuthenticateFind(p) ==
  LET c == calls[p]
      user == UserById(The(c.payload).userId) IN
  /\ c.pc = "auth_find"
  /\ calls' = [calls EXCEPT ![p] =
       IF user = {} THEN Finish(c, sendUnauthorized("User not found"))
       ELSE IF The(user).status # "active"
         THEN Finish([c EXCEPT !.user = user], sendForbidden(AccountIs(The(user).status).msg))
       ELSE Finish([c EXCEPT !.user = user, !.userId = The(user).id,
                             !.email = The(user).email], Passed)]
  /\ UNCHANGED <<limits, now, ms, users, tokens, nextId>>

Authenticate(p, env) == AuthenticateVerify(p, env) \/ AuthenticateFind(p)

\* One registered account whose status is changed while requests with bearer
\* tokens arrive; requests interleave at their awaits.
GateEnv ==
  [solo |-> FALSE, emails |-> OneEmail, horizon |-> MaxNow, held |-> 0,
   passwords |-> {"Abcd1234!"}, instants |-> Instants, issued |-> 0..MaxNow]

GateInit ==
  /\ now = 0
  /\ ms = 0
  /\ users = <<[email |-> "a@x.io", passwordHash |-> HashPassword("Abcd1234!"),
               status |-> "active", lastLoginAt |-> Null, previousHash |-> NoHash]>>
  /\ tokens = {}
  /\ nextId = 1
  /\ calls = [p \in Procs |-> Idle]
  /\ store = [k \in Ips |-> Null]
  /\ audit = [k \in Ips |-> Null]

GateNext ==
  \/ Sleep(GateEnv)
  \/ \E p \in {"p1"} : Authenticate(p, GateEnv)
  \/ \E p \in {"p2"} :
       \/ SuspendAccount(p, GateEnv)
       \/ ReactivateAccount(p, GateEnv)
       \/ DeleteAccount(p, GateEnv)

GateSpec == GateInit /\ [][GateNext]_vars

\* the authenticate call of p ends in this step
AuthenticateEnds(p) ==
  calls[p].op = "authenticate" /\ calls[p].pc = "auth_find" /\ calls'[p].pc = "done"

\* C19: authenticate goes on past verification only with an unexpired access-kind
\* token signed with the access secret, and answers a refresh-kind token 401; it
\* calls next() only when the account of the token exists with status active at the
\* lookup, and answers 403 when that account is suspended or deleted (GateSpec).
AuthenticateGate ==
  [][\A p \in Procs :
       /\ Starts(p, "authenticate") =>
            /\ calls'[p].pc = "auth_find" =>
                 /\ calls'[p].token.type = "access"
                 /\ calls'[p].token.key = JWT_ACCESS_SECRET
                 /\ now < calls'[p].token.exp
            /\ calls'[p].token.type = "refresh" =>
                 calls'[p].pc = "done" /\ calls'[p].result.code = 401
            /\ calls'[p].result # Passed
       /\ AuthenticateEnds(p) =>
            LET user == UserById(calls[p].token.userId) IN
            /\ calls'[p].result = Passed => user # {} /\ The(user).status = "active"
            /\ (user # {} /\ The(user).status # "active") => calls'[p].result.code = 403
            /\ user = {} => calls'[p].result.code = 401]_vars

\* a request with an unexpired access token of the suspended account was answered 403
AuthenticateGateWitness ==
  \E p \in Procs :
    /\ Done(p, "authenticate") /\ Code(p) = 403
    /\ calls[p].token.type = "access" /\ now < calls[p].token.exp
    /\ users[1].status = "suspended"


(* a password change overlapping login and refresh calls of the same account *)
\* The tables one second after register created the account and its first refresh
\* row; one device refreshes or logs in while another changes the password.
ChangeRaceEnv ==
  [solo |-> FALSE, emails |-> {"a@x.io"}, horizon |-> MaxNow + 1, held |-> 0,
   passwords |-> {"Abcd1234!"}]

ChangeRaceInit ==
  /\ now = 1
  /\ ms = 0
  /\ users = <<[email |-> "a@x.io", passwordHash |-> HashPassword("Abcd1234!"),
                status |-> "active", lastLoginAt |-> Null, previousHash |-> NoHash]>>
  /\ tokens = {[id |-> 1,
                token |-> SignAt("refresh", 1, "a@x.io", JWT_REFRESH_SECRET,
                                 ParseDuration(JWT_REFRESH_EXPIRES_IN), 0),
                userId |-> 1, createdAt |-> 0,
                expiresAt |-> ParseDuration(JWT_REFRESH_EXPIRES_IN),
                revokedAt |-> Null, revokedBy |-> ""]}
  /\ nextId = 2
  /\ calls = [p \in Procs |-> Idle]
  /\ store = [k \in Ips |-> Null]
  /\ audit = [k \in Ips |-> Null]

ChangeRaceNext ==
  \/ Tick(ChangeRaceEnv)
  \/ \E p \in {"p1"} :
       \/ Login(p, ChangeRaceEnv)
       \/ RefreshTokens(p, ChangeRaceEnv)
       \/ StoreRefreshToken(p)
  \/ \E p \in {"p2"} : ChangePassword(p, ChangeRaceEnv)

ChangeRaceSpec == ChangeRaceInit /\ [][ChangeRaceNext]_vars

\* the call of q read the account before the password hash it has now was written
ReadBeforeChange(q) ==
  /\ calls[q].user # {}
  /\ The(calls[q].user).passwordHash # users[The(calls[q].user).id].passwordHash

\* C20: once a changePassword call and the login or refresh call that overlapped
\* it are both done, the row stored by that login or refresh call, which read the
\* account before the new hash was written, is not live (ChangeRaceSpec).
ChangePasswordForcesRelogin ==
  \A p, q \in Procs :
    ( /\ Done(p, "changePassword") /\ Code(p) = 200
      /\ calls[q].op \in {"login", "refresh"} /\ calls[q].pc = "done"
      /\ ReadBeforeChange(q)
      /\ The(calls[q].user).id = calls[p].userId )
      => \A r \in RowByToken(calls[q].tok) : ~Live(r)


(* two devices refreshing, requests interleaved at their awaits *)
\* The tables one second after register at second 0: the account and its
\* refresh row.
RotateEnv ==
  [solo |-> FALSE, emails |-> {"a@x.io"}, horizon |-> MaxNow + 1, held |-> 0,
   passwords |-> {"Abcd1234!"}]

RotateNext ==
  \/ Tick(RotateEnv)
  \/ \E p \in Procs :
       \/ RefreshTokens(p, RotateEnv)
       \/ StoreRefreshToken(p)

RotateSpec == ChangeRaceInit /\ [][RotateNext]_vars

\* ---- Rotation order ----

\* the refresh call of p has passed its update of the presented row
Rotated(p) == calls[p].op = "refresh" /\ calls[p].tok # NoToken

\* C21: from the moment a refresh call has a replacement token, in every state up
\* to and after its end, the row it presented is revoked if it still exists, and
\* the step that creates the replacement row finds it so (RotateSpec).
MarkThenIssue ==
  [][\A p \in Procs :
       /\ Rotated(p)' =>
            \A r \in {x \in tokens' : x.id = The(calls'[p].stored).id} : Revoked(r)
       /\ (calls[p].op = "refresh" /\ calls[p].pc = "store_create" /\ tokens' # tokens) =>
            \A r \in RowById(The(calls[p].stored).id) : Revoked(r)]_vars

\* a rotation is done: the replacement row is live, the presented row revoked
MarkThenIssueWitness ==
  \E p \in Procs :
    /\ Done(p, "refresh") /\ Code(p) = 200
    /\ \E r \in RowByToken(calls[p].tok) : Live(r)
    /\ \E r \in RowById(The(calls[p].stored).id) : Revoked(r)


(* two logins of one account at the session cap, interleaved at their awaits *)
\* The tables of an account with 10 sessions, none revoked, each from a login in a
\* second of its own (tokens signed at seconds 0..9). The login of second 1 reached
\* its create only in second 2, so rows 2 and 3 have one createdAt.
EvictStart == MaxSessions
EvictEnv ==
  [solo |-> FALSE, emails |-> {"a@x.io"}, horizon |-> EvictStart + 1, held |-> 0,
   passwords |-> {"Abcd1234!"}]

EvictInit ==
  /\ now = EvictStart
  /\ ms = 0
  /\ users = <<[email |-> "a@x.io", passwordHash |-> HashPassword("Abcd1234!"),
                status |-> "active", lastLoginAt |-> Some(EvictStart - 1),
                previousHash |-> NoHash]>>
  /\ tokens = {[id |-> t + 1,
                token |-> SignAt("refresh", 1, "a@x.io", JWT_REFRESH_SECRET,
                                 ParseDuration(JWT_REFRESH_EXPIRES_IN), t),
                userId |-> 1, createdAt |-> IF t = 1 THEN 2 ELSE t,
                expiresAt |-> (IF t = 1 THEN 2 ELSE t) + ParseDuration(JWT_REFRESH_EXPIRES_IN),
                revokedAt |-> Null, revokedBy |-> ""] : t \in 0..(EvictStart - 1)}
  /\ nextId = EvictStart + 1
  /\ calls = [p \in Procs |-> Idle]
  /\ store = [k \in Ips |-> Null]
  /\ audit = [k \in Ips |-> Null]

EvictNext ==
  \/ Tick(EvictEnv)
  \/ \E p \in Procs :
       \/ Login(p, EvictEnv)
       \/ StoreRefreshToken(p)

EvictSpec == EvictInit /\ [][EvictNext]_vars

NonRevoked(u) == {r \in tokens : r.userId = u /\ ~Revoked(r)}

\* C22: with no storeRefreshToken call in flight the account has at most 10
\* non-revoked rows, and exactly 10 when rows were evicted: none of the 10 newest
\* was deleted (EvictSpec).
EvictionConverges ==
  Quiet =>
    /\ Cardinality(NonRevoked(1)) <= MaxSessions
    /\ Cardinality(tokens) < nextId - 1 => Cardinality(NonRevoked(1)) = MaxSessions


(* refresh calls around the end of the token's life, one request at a time *)
\* The tables after register at second 0: the account and its refresh row. The
\* clock moves on to the seconds around that row's expiresAt.
ExpiryInstants == {ParseDuration(JWT_REFRESH_EXPIRES_IN) + d : d \in (0 - 1)..MaxNow}
ExpiryEnv ==
  [solo |-> TRUE, emails |-> {"a@x.io"}, horizon |-> MaxNow, held |-> 0,
   passwords |-> {"Abcd1234!"}, instants |-> ExpiryInstants, issued |-> {0}]

ExpiryInit ==
  /\ now = 0
  /\ ms = 0
  /\ users = <<[email |-> "a@x.io", passwordHash |-> HashPassword("Abcd1234!"),
                status |-> "active", lastLoginAt |-> Null, previousHash |-> NoHash]>>
  /\ tokens = {[id |-> 1,
                token |-> SignAt("refresh", 1, "a@x.io", JWT_REFRESH_SECRET,
                                 ParseDuration(JWT_REFRESH_EXPIRES_IN), 0),
                userId |-> 1, createdAt |-> 0,
                expiresAt |-> ParseDuration(JWT_REFRESH_EXPIRES_IN),
                revokedAt |-> Null, revokedBy |-> ""]}
  /\ nextId = 2
  /\ calls = [p \in Procs |-> Idle]
  /\ store = [k \in Ips |-> Null]
  /\ audit = [k \in Ips |-> Null]

ExpiryNext ==
  \/ Sleep(ExpiryEnv)
  \/ \E p \in {"p1"} :
       \/ RefreshTokens(p, ExpiryEnv)
       \/ StoreRefreshToken(p)

ExpirySpec == ExpiryInit /\ [][ExpiryNext]_vars

\* the refresh call of p ends in this step
RefreshEnds(p) ==
  /\ calls'[p].op = "refresh" /\ calls'[p].pc = "done"
  /\ calls[p].pc # "done" \/ calls[p].op # "refresh" \/ calls[p].token # calls'[p].token

\* the row of token t is not revoked and past its expiresAt
ExpiredRecord(t) == \E r \in RowByToken(t) : ~Revoked(r) /\ r.expiresAt < now

\* C23: a refreshTokens call on a token whose row is not revoked and past its
\* expiresAt ends with 401, and when it ends that row is gone from the store and
\* every other row is as it was when the call ended including revokedAt (ExpirySpec).
ExpiredRecordDeleted ==
  [][\A p \in Procs :
       (RefreshEnds(p) /\ ExpiredRecord(calls'[p].token)) =>
          /\ calls'[p].result.code = 401
          /\ tokens' = {r \in tokens : r.token # calls'[p].token}]_vars


(* ---------------------- parseDuration on its own ----------------------- *)
\* the configured strings: every string of at most DurationLen of these characters
DurationLen == 3
DurationChars == {"0", "1", "5", "7", "s", "m", "h", "d", "x", "-", " "}
Durations == UNION {[1..n -> DurationChars] : n \in 0..DurationLen}

DurationInit ==
  /\ now = 0
  /\ ms = 0
  /\ users = <<>>
  /\ tokens = {}
  /\ nextId = 1
  /\ \E d \in Durations :
       calls = [p \in Procs |-> IF p = "p1" THEN [Idle EXCEPT !.duration = d] ELSE Idle]
  /\ store = [k \in Ips |-> Null]
  /\ audit = [k \in Ips |-> Null]

\* parseDuration(duration) for the string the process was configured with
ParseDurationCall(p) ==
  /\ calls[p].pc = "idle"
  /\ calls' = [calls EXCEPT ![p] =
       Finish([Begin(p, "parseDuration", "done") EXCEPT
                 !.duration = calls[p].duration,
                 !.seconds = ParseDuration(calls[p].duration)], Ok(200))]
  /\ UNCHANGED <<limits, now, ms, users, tokens, nextId>>

DurationNext == \E p \in {"p1"} : ParseDurationCall(p)

DurationSpec == DurationInit /\ [][DurationNext]_vars

\* the number a string of decimal digits writes, read from its first digit on
RECURSIVE Decimal(_, _)
Decimal(s, acc) ==
  IF s = <<>> THEN acc ELSE Decimal(Tail(s), acc * 10 + DigitValue(s[1]))
IsNumeral(s) == s # <<>> /\ \A i \in 1..Len(s) : DigitValue(s[i]) >= 0
UnitSeconds(unit) ==
  CASE unit = "s" -> 1 [] unit = "m" -> 60 [] unit = "h" -> 3600 [] unit = "d" -> 86400

\* C24: parseDuration returns n, 60n, 3600n, 86400n for the digits of n followed
\* by s, m, h, d, and 604800 for every string that does not end in one of these
\* four; the defaults "15m" and "7d" give 900 and 604800 (DurationSpec).
ParseDurationContract ==
  /\ ParseDuration(JWT_ACCESS_EXPIRES_IN) = 900
  /\ ParseDuration(JWT_REFRESH_EXPIRES_IN) = 604800
  /\ \A p \in Procs :
       Done(p, "parseDuration") =>
         LET d == calls[p].duration
             n == SubSeq(d, 1, Len(d) - 1) IN
         /\ (d = <<>>) => calls[p].seconds = 604800
         /\ (d # <<>> /\ d[Len(d)] \notin {"s", "m", "h", "d"}) => calls[p].seconds = 604800
         /\ (d # <<>> /\ d[Len(d)] \in {"s", "m", "h", "d"} /\ IsNumeral(n)) =>
              calls[p].seconds = Decimal(n, 0) * UnitSeconds(d[Len(d)])

\* "15m" was parsed
ParseDurationWitness ==
  \E p \in Procs :
    /\ Done(p, "parseDuration") /\ calls[p].duration = <<"1", "5", "m">>
    /\ calls[p].seconds = 900


\* ---- Windows of the rate limiter ----

\* p starts a request that goes through the rate limiter
Asks(p) == Starts(p, "apiRequest") \/ Starts(p, "authRequest")
\* the entry of key is past its resetTime
Stale(key) == Entry(store, key) # Null /\ The(store[key]).resetTime <= DateNow
InWindow(key) == Entry(store, key) # Null /\ The(store[key]).resetTime > DateNow

BurstStart == apiRateLimiter.maxRequests - 1
BurstLen == 4
MsParts == {0, 1, 999}
BurstEnv ==
  [solo |-> TRUE, emails |-> OneEmail, horizon |-> MaxNow, held |-> 0, passwords |-> Passwords,
   instants |-> {(apiRateLimiter.windowMs \div 1000) - d : d \in 0..MaxNow}, issued |-> {0},
   millis |-> MsParts, maxCount |-> BurstStart + BurstLen]

BurstInit ==
  /\ now = 1
  /\ ms = 0
  /\ users = <<>>
  /\ tokens = {}
  /\ nextId = 1
  /\ calls = [p \in Procs |-> Idle]
  /\ \E m \in MsParts :
       store = [k \in Ips |-> Some([count |-> BurstStart,
                                    resetTime |-> m + apiRateLimiter.windowMs])]
  /\ audit = [k \in Ips |-> Null]

BurstNext ==
  \/ Sleep(BurstEnv)
  \/ Millis(BurstEnv)
  \/ \E p \in {"p1"} :
       \/ ApiRequest(p, BurstEnv)
       \/ AuthRequest(p, BurstEnv)

BurstSpec == BurstInit /\ [][BurstNext]_vars

\* the limiter instance that answered the request c with 429
Rejecting(c) ==
  IF c.result.msg = authRateLimiter.message THEN authRateLimiter ELSE apiRateLimiter

\* C26: a request answered 429, and no other, carries a Retry-After: the
\* milliseconds from its instant to the entry's resetTime in whole seconds rounded
\* up, at least 1 and at most the windowMs / 1000 of the instance that rejected
\* it; X-RateLimit-Remaining is never below 0 (BurstSpec).
RetryAfterBounds ==
  [][\A p \in Procs :
       Asks(p) =>
         LET c == calls'[p]
             left == The(store'[c.ip]).resetTime - DateNow IN
         /\ \A n \in c.remaining : n >= 0
         /\ c.remaining # Null
         /\ c.result.code = 429 <=> c.retryAfter # Null
         /\ \A secs \in c.retryAfter :
              /\ secs >= 1
              /\ secs * 1000 <= Rejecting(c).windowMs
              /\ secs * 1000 >= left
              /\ (secs - 1) * 1000 < left]_vars

\* a request was rejected less than a second before the end of its window
RetryAfterWitness ==
  \E p \in Procs :
    /\ Done(p, "apiRequest") /\ Code(p) = 429
    /\ calls[p].retryAfter = Some(1)
    /\ The(store[calls[p].ip]).resetTime - DateNow \in 1..999

(* every session and account handler on one account, one request at a time *)
\* The tables one second after register at second 0: the account and its
\* refresh row.
LifeEnv ==
  [solo |-> TRUE, emails |-> {"a@x.io"}, horizon |-> MaxNow + 1, held |-> 0,
   passwords |-> {"Abcd1234!"}]

LifeInit ==
  /\ now = 1
  /\ ms = 0
  /\ users = <<[email |-> "a@x.io", passwordHash |-> HashPassword("Abcd1234!"),
                status |-> "active", lastLoginAt |-> Null, previousHash |-> NoHash]>>
  /\ tokens = {[id |-> t + 1,
                token |-> SignAt("refresh", 1, "a@x.io", JWT_REFRESH_SECRET,
                                 ParseDuration(JWT_REFRESH_EXPIRES_IN), t),
                userId |-> 1, createdAt |-> t,
                expiresAt |-> t + ParseDuration(JWT_REFRESH_EXPIRES_IN),
                revokedAt |-> Null, revokedBy |-> ""] : t \in 0..0}
  /\ nextId = 2
  /\ calls = [p \in Procs |-> Idle]
  /\ store = [k \in Ips |-> Null]
  /\ audit = [k \in Ips |-> Null]

LifeNext ==
  \E p \in {"p1"} :
    \/ Login(p, LifeEnv)
    \/ RefreshTokens(p, LifeEnv)
    \/ Logout(p, LifeEnv)
    \/ LogoutAll(p, LifeEnv)
    \/ ChangePassword(p, LifeEnv)
    \/ RevokeSession(p, LifeEnv)
    \/ SuspendAccount(p, LifeEnv)
    \/ ReactivateAccount(p, LifeEnv)
    \/ DeleteAccount(p, LifeEnv)
    \/ StoreRefreshToken(p)

LifeSpec == LifeInit /\ [][LifeNext]_vars

DeletedInit ==
  /\ now = 1
  /\ ms = 0
  /\ users = <<[email |-> "a@x.io", passwordHash |-> HashPassword("Abcd1234!"),
                status |-> "deleted", lastLoginAt |-> Null, previousHash |-> NoHash]>>
  /\ tokens = {[id |-> 1,
                token |-> SignAt("refresh", 1, "a@x.io", JWT_REFRESH_SECRET,
                                 ParseDuration(JWT_REFRESH_EXPIRES_IN), 0),
                userId |-> 1, createdAt |-> 0,
                expiresAt |-> ParseDuration(JWT_REFRESH_EXPIRES_IN),
                revokedAt |-> Some(1), revokedBy |-> "deleteAccount"]}
  /\ nextId = 2
  /\ calls = [p \in Procs |-> Idle]
  /\ store = [k \in Ips |-> Null]
  /\ audit = [k \in Ips |-> Null]

DeletedSpec == DeletedInit /\ [][LifeNext]_vars

\* C28: from the state a deleteAccount call leaves, the status of the account is
\* never active again, whatever suspendAccount, reactivateAccount and
\* deleteAccount calls follow (DeletedSpec).
DeletedStaysDeleted ==
  \A u \in UserIds : users[u].status # "active"


(* mass revocations and eviction on one account beside another account *)
\* The tables after account 1 logged in once in each of the seconds 0..9 and
\* account 2 registered in second 9: account 1 is at the session cap. Callers
\* present the token of the newest row, or the token a login of this second gets.
IsolationEnv ==
  [solo |-> TRUE, emails |-> {TwoEmails[u] : u \in DOMAIN TwoEmails}, horizon |-> MaxSessions,
   held |-> 1, passwords |-> {"Abcd1234!"}]

IsolationInit ==
  /\ now = MaxSessions
  /\ ms = 0
  /\ users = [u \in DOMAIN TwoEmails |->
                [email |-> TwoEmails[u], passwordHash |-> HashPassword("Abcd1234!"),
                 status |-> "active", lastLoginAt |-> Some(MaxSessions - 1),
                 previousHash |-> NoHash]]
  /\ tokens = {[id |-> t + 1,
                token |-> SignAt("refresh", 1, TwoEmails[1], JWT_REFRESH_SECRET,
                                 ParseDuration(JWT_REFRESH_EXPIRES_IN), t),
                userId |-> 1, createdAt |-> t,
                expiresAt |-> t + ParseDuration(JWT_REFRESH_EXPIRES_IN),
                revokedAt |-> Null, revokedBy |-> ""] : t \in 0..(MaxSessions - 1)}
             \cup
             {[id |-> MaxSessions + 1,
               token |-> SignAt("refresh", 2, TwoEmails[2], JWT_REFRESH_SECRET,
                                ParseDuration(JWT_REFRESH_EXPIRES_IN), MaxSessions - 1),
               userId |-> 2, createdAt |-> MaxSessions - 1,
               expiresAt |-> MaxSessions - 1 + ParseDuration(JWT_REFRESH_EXPIRES_IN),
               revokedAt |-> Null, revokedBy |-> ""]}
  /\ nextId = MaxSessions + 2
  /\ calls = [p \in Procs |-> Idle]
  /\ store = [k \in Ips |-> Null]
  /\ audit = [k \in Ips |-> Null]

IsolationNext ==
  \E p \in {"p1"} :
    \/ Login(p, IsolationEnv)
    \/ RefreshTokens(p, IsolationEnv)
    \/ LogoutAll(p, IsolationEnv)
    \/ SuspendAccount(p, IsolationEnv)
    \/ DeleteAccount(p, IsolationEnv)
    \/ StoreRefreshToken(p)

IsolationSpec == IsolationInit /\ [][IsolationNext]_vars

\* the rows of account u as they are stored
OwnedBy(u) == {r \in tokens : r.userId = u}

\* this step runs a mass revocation or an eviction for account a in the call of p
MassStep(p, a) ==
  /\ tokens' # tokens
  /\ \/ calls[p].pc \in {"refresh_revoke_all", "cp_revoke", "sus_revoke", "del_revoke",
                         "store_delete"}
        /\ calls'[p] # calls[p]
        /\ (IF calls[p].pc = "refresh_revoke_all" THEN The(calls[p].stored).userId
                                                  ELSE calls[p].userId) = a
     \/ Starts(p, "logoutAll") /\ calls'[p].userId = a


FailedEarly(c) ==
  c.result \in {AppError("Invalid or expired refresh token", 401),
                AppError("Refresh token not found", 401),
                AccountIs("suspended"), AccountIs("deleted")}

\* A refresh call on p1 beside the status operations on p2, the calls
\* overlapping, from one account with one live row.
\* the clock can jump to the first second past the lifetime of the seeded token
FrameInstants == {ParseDuration(JWT_REFRESH_EXPIRES_IN) + 1}
FrameEnv ==
  [solo |-> FALSE, emails |-> {"a@x.io"}, horizon |-> MaxNow + 1, held |-> 1,
   passwords |-> {"Abcd1234!"}, instants |-> FrameInstants]

FrameNext ==
  \/ Sleep(FrameEnv)
  \/ \E p \in {"p1"} : RefreshTokens(p, FrameEnv) \/ StoreRefreshToken(p)
  \/ \E p \in {"p2"} :
       \/ SuspendAccount(p, FrameEnv)
       \/ ReactivateAccount(p, FrameEnv)
       \/ DeleteAccount(p, FrameEnv)

FrameSpec == ChangeRaceInit /\ [][FrameNext]_vars

====
